---- MODULE Spec2Model ----
(***************************************************************************)
(* Model of src/src/exif_extractor/server.py: the EXIF extractor tool.     *)
(*                                                                         *)
(* Python values are modelled as follows.                                  *)
(*   - a dict is a function whose DOMAIN is the set of its keys, so        *)
(*     `k in d` is k \in DOMAIN d and `not d` is DOMAIN d = {};            *)
(*   - a tag value is a record [py |-> "tuple", a, b] (a 2-tuple (a, b)),  *)
(*     [py |-> "int", a, b |-> 0] (the int a) or [py |-> "bytes", s];      *)
(*   - a str built with "\n"-terminated pieces is the sequence of its      *)
(*     lines; the text of each line is the source literal without its      *)
(*     leading pictograph (the module is ASCII), and the multiplication    *)
(*     sign of the dimensions line is written "x";                         *)
(*   - a call returns [exc |-> "none", value |-> v] or raises, which is    *)
(*     [exc |-> <exception class>, value |-> <message lines>].             *)
(***************************************************************************)
EXTENDS Integers, Sequences, FiniteSets, TLC

VARIABLES fmt_exif, fmt_config, fmt_image, fmt_out,
          request, response, calls, loaded

vars == <<fmt_exif, fmt_config, fmt_image, fmt_out, request, response, calls, loaded>>

(***************************************************************************)
(* Bounds of the enumerated inputs.                                        *)
(***************************************************************************)
MaxFlash == 2

(***************************************************************************)
(* Python helpers.                                                         *)
(***************************************************************************)
RECURSIVE Repeat(_, _)
\* s * n for a str s
Repeat(s, n) == IF n <= 0 THEN "" ELSE s \o Repeat(s, n - 1)

\* str(k) for an int k
Str(k) == ToString(k)

\* bytes.decode('utf-8') of an ASCII byte string
Decode(v) == v.s

\* isinstance(v, tuple)
IsTuple(v) == v.py = "tuple"

\* f"{v}" of a tag value: an int prints as its digits, a 2-tuple as "(a, b)"
FormatValue(v) == IF IsTuple(v) THEN "(" \o Str(v.a) \o ", " \o Str(v.b) \o ")"
                  ELSE Str(v.a)

\* the tenths of n/d (n >= 0, d > 0) rounded to the nearest, ties to even:
\* what f"{n / d:.1f}" prints when n/d, or the tie it lies on, is a binary
\* fraction (the FNumber values of ExifDirs have the denominators 4 and 10)
RoundTenths(n, d) ==
    LET q == (10 * n) \div d
        r == (10 * n) % d
    IN  IF 2 * r > d THEN q + 1
        ELSE IF 2 * r < d THEN q
        ELSE IF q % 2 = 0 THEN q ELSE q + 1

\* f"{n / d:.1f}"
FormatOneDecimal(n, d) ==
    LET t == RoundTenths(n, d) IN Str(t \div 10) \o "." \o Str(t % 10)

Ok(v) == [exc |-> "none", value |-> v]
Raise(e, msg) == [exc |-> e, value |-> msg]

(***************************************************************************)
(* ExifConfig                                                              *)
(***************************************************************************)
DefaultMaxFileSize == 50 * 1024 * 1024

ExifConfig(technical, location, max_size) ==
    [timeout |-> 30, max_file_size |-> max_size,
     include_technical |-> technical, include_location |-> location]

(***************************************************************************)
(* _format_exif_info, block by block.  Each block is the lines it appends. *)
(***************************************************************************)
NoExifText == <<"No EXIF information found">>

ReportHeader == <<"Image EXIF Information:", Repeat("=", 50), "">>

TagLine(dir, tag, label) ==
    IF tag \in DOMAIN dir THEN <<label \o Decode(dir[tag])>> ELSE <<>>

BasicBlock(exif_data) ==
    IF "0th" \in DOMAIN exif_data
    THEN LET basic_info == exif_data["0th"]
         IN  TagLine(basic_info, "Make", "Camera Make: ")
             \o TagLine(basic_info, "Model", "Camera Model: ")
             \o TagLine(basic_info, "DateTime", "Date Taken: ")
             \o TagLine(basic_info, "Software", "Software: ")
    ELSE <<>>

TechnicalHeader == <<"", "Technical Parameters:", Repeat("-", 30)>>

\* f_number[0] / f_number[1] raises ZeroDivisionError when f_number[1] is 0
ApertureRaises(exif_info) ==
    /\ "FNumber" \in DOMAIN exif_info
    /\ IsTuple(exif_info["FNumber"])
    /\ exif_info["FNumber"].b = 0

ApertureLine(exif_info) ==
    IF "FNumber" \in DOMAIN exif_info
    THEN LET f_number == exif_info["FNumber"]
         IN  <<"Aperture: f/" \o (IF IsTuple(f_number)
                                   THEN FormatOneDecimal(f_number.a, f_number.b)
                                   ELSE FormatOneDecimal(f_number.a, 1))>>
    ELSE <<>>

RECURSIVE Gcd(_, _)
Gcd(m, n) == IF n = 0 THEN m ELSE Gcd(n, m % n)

\* faulty variant: the fraction is reduced before it is printed
ShutterLine_reduced(exif_info) ==
    IF "ExposureTime" \in DOMAIN exif_info
    THEN LET exposure == exif_info["ExposureTime"]
             g == IF IsTuple(exposure) /\ Gcd(exposure.a, exposure.b) > 0
                  THEN Gcd(exposure.a, exposure.b) ELSE 1
             shutter == IF IsTuple(exposure)
                        THEN Str(exposure.a \div g) \o "/" \o Str(exposure.b \div g) \o "s"
                        ELSE FormatValue(exposure) \o "s"
         IN  <<"Shutter Speed: " \o shutter>>
    ELSE <<>>

ShutterLine(exif_info) ==
    IF "ExposureTime" \in DOMAIN exif_info
    THEN LET exposure == exif_info["ExposureTime"]
             shutter == IF IsTuple(exposure)
                        THEN Str(exposure.a) \o "/" \o Str(exposure.b) \o "s"
                        ELSE FormatValue(exposure) \o "s"
         IN  <<"Shutter Speed: " \o shutter>>
    ELSE <<>>

IsoLine(exif_info) ==
    IF "ISOSpeedRatings" \in DOMAIN exif_info
    THEN <<"ISO: " \o FormatValue(exif_info["ISOSpeedRatings"])>>
    ELSE <<>>

FocalLine(exif_info) ==
    IF "FocalLength" \in DOMAIN exif_info
    THEN LET focal == exif_info["FocalLength"]
             focal_length == IF IsTuple(focal)
                             THEN Str(focal.a) \o "/" \o Str(focal.b) \o "mm"
                             ELSE FormatValue(focal) \o "mm"
         IN  <<"Focal Length: " \o focal_length>>
    ELSE <<>>

\* faulty variant: the mask is dropped (`"On" if flash else "Off"`)
FlashBit_unmasked(flash) == flash

\* flash & 0x01 of a non-negative int
FlashBit(flash) == flash % 2

FlashLine(exif_info) ==
    IF "Flash" \in DOMAIN exif_info
    THEN LET flash == exif_info["Flash"].a
             flash_text == IF FlashBit(flash) # 0 THEN "On" ELSE "Off"
         IN  <<"Flash: " \o flash_text>>
    ELSE <<>>

WhiteBalanceLine(exif_info) ==
    IF "WhiteBalance" \in DOMAIN exif_info
    THEN LET wb == exif_info["WhiteBalance"].a
             wb_text == IF wb = 0 THEN "Auto" ELSE "Manual"
         IN  <<"White Balance: " \o wb_text>>
    ELSE <<>>

\* faulty variant: the include_technical gate is dropped
TechnicalEntered_ungated(exif_data, config) == "Exif" \in DOMAIN exif_data

TechnicalEntered(exif_data, config) ==
    config.include_technical /\ "Exif" \in DOMAIN exif_data

TechnicalLines(exif_info) ==
    ApertureLine(exif_info) \o ShutterLine(exif_info) \o IsoLine(exif_info)
    \o FocalLine(exif_info) \o FlashLine(exif_info) \o WhiteBalanceLine(exif_info)

TechnicalBlock(exif_data, config) ==
    IF TechnicalEntered(exif_data, config)
    THEN TechnicalHeader \o TechnicalLines(exif_data["Exif"])
    ELSE <<>>

ImageBlock(image) ==
    IF ~image.is_none
    THEN <<"", "Image Information:", Repeat("-", 30),
           "Dimensions: " \o Str(image.size[1]) \o " x " \o Str(image.size[2]) \o " pixels",
           "Color Mode: " \o image.mode,
           "Format: " \o image.format>>
    ELSE <<>>

\* faulty variant: the `if not exif_data` early return is dropped
_format_exif_info_no_early_return(exif_data, config, image) ==
    IF TechnicalEntered(exif_data, config) /\ ApertureRaises(exif_data["Exif"])
    THEN Raise("ZeroDivisionError", <<"division by zero">>)
    ELSE Ok(ReportHeader \o BasicBlock(exif_data)
            \o TechnicalBlock(exif_data, config) \o ImageBlock(image))

_format_exif_info(exif_data, config, image) ==
    IF DOMAIN exif_data = {}
    THEN Ok(NoExifText)
    ELSE IF TechnicalEntered(exif_data, config) /\ ApertureRaises(exif_data["Exif"])
    THEN Raise("ZeroDivisionError", <<"division by zero">>)
    ELSE Ok(ReportHeader \o BasicBlock(exif_data)
            \o TechnicalBlock(exif_data, config) \o ImageBlock(image))

(***************************************************************************)
(* Pillow and piexif, as the tool uses them.                               *)
(*                                                                         *)
(* An opened image is [is_none |-> FALSE, has_getexif, getexif_none, info, *)
(* size, mode, format]: has_getexif is hasattr(image, '_getexif'),         *)
(* getexif_none is `image._getexif() is None`, info is image.info (a dict  *)
(* that holds the raw metadata bytes under "exif" when the container has   *)
(* any).  The raw bytes are [fault, ifds]: fault is "none" for a parseable *)
(* blob whose directories are ifds, "no_header" or "truncated" otherwise.  *)
(***************************************************************************)
NoImage == [is_none |-> TRUE]

\* str(exif_dict): the text rendering of the mapping _getexif() returned
StrOf(mapping) == [py |-> "str", of |-> mapping]

RawBytes(blob) == [py |-> "bytes", blob |-> blob]

\* what piexif.load returns for a parseable blob: every directory, present or
\* not in the blob, and the thumbnail entry (None, written <<>>)
AllDirectories(ifds) ==
    [k \in {"0th", "Exif", "GPS", "Interop", "1st", "thumbnail"} |->
        IF k \in DOMAIN ifds THEN ifds[k] ELSE <<>>]

\* piexif.load(data): bytes that start with a known header are parsed; anything
\* else (a str included) is taken for a file name and opened, which raises, and
\* a blob cut short raises from the unpacking of its entries
piexif_load(data) ==
    IF data.py # "bytes"
    THEN Raise("FileNotFoundError", <<"No such file or directory">>)
    ELSE IF data.blob.fault = "no_header"
    THEN Raise("FileNotFoundError", <<"No such file or directory">>)
    ELSE IF data.blob.fault = "truncated"
    THEN Raise("struct.error", <<"unpack requires a buffer">>)
    ELSE Ok(AllDirectories(data.blob.ifds))

(***************************************************************************)
(* _extract_exif_from_pil: the argument it hands to piexif.load, if any,   *)
(* and its outcome.                                                        *)
(***************************************************************************)
TakesGetexifPath(image) == image.has_getexif /\ ~image.getexif_none

TakesInfoPath(image) == ~TakesGetexifPath(image) /\ "exif" \in DOMAIN image.info

LoadArgument(image) ==
    IF TakesGetexifPath(image) THEN StrOf("exif_dict")
    ELSE RawBytes(image.info["exif"])

_extract_exif_from_pil(image) ==
    IF TakesGetexifPath(image) \/ TakesInfoPath(image)
    THEN piexif_load(LoadArgument(image))
    ELSE Ok(<<>>)

(***************************************************************************)
(* Acquisition.  A request is [kind, netloc_ok, download_ok, b64_ok, size, *)
(* payload, config]: kind is "url" when image_input starts with http:// or *)
(* https://, size is the length in bytes of the payload, payload is what   *)
(* Image.open makes of it (an image or "not_image").                       *)
(***************************************************************************)
TooLargeText(config) ==
    "File too large, exceeds " \o Str(config.max_file_size \div (1024 * 1024)) \o "MB limit"

ExceedsLimit(size, config) == size > config.max_file_size

ImageOpen(payload) ==
    IF payload.is_image THEN Ok(payload.image)
    ELSE Raise("UnidentifiedImageError", <<"cannot identify image file">>)

_get_image_from_url(req, config) ==
    IF ~req.download_ok
    THEN Raise("ValueError", <<"Failed to download image: " \o "request failed">>)
    ELSE IF ExceedsLimit(req.size, config)
    THEN Raise("ValueError", <<"Failed to process image: " \o TooLargeText(config)>>)
    ELSE IF ImageOpen(req.payload).exc # "none"
    THEN Raise("ValueError", <<"Failed to process image: " \o ImageOpen(req.payload).value[1]>>)
    ELSE ImageOpen(req.payload)

_get_image_from_base64(req) ==
    IF ~req.b64_ok
    THEN Raise("ValueError", <<"Failed to parse Base64 image: " \o "Incorrect padding">>)
    ELSE IF ImageOpen(req.payload).exc # "none"
    THEN Raise("ValueError", <<"Failed to parse Base64 image: " \o ImageOpen(req.payload).value[1]>>)
    ELSE ImageOpen(req.payload)

(***************************************************************************)
(* extract_exif: the response, the helpers it called in order, and the     *)
(* argument piexif.load received.                                          *)
(***************************************************************************)
\* the two except clauses of extract_exif
Caught(outcome) ==
    IF outcome.exc = "ValueError" THEN <<"Error: " \o outcome.value[1]>>
    ELSE <<"Processing failed: " \o outcome.value[1]>>

NotLoaded == [py |-> "nothing"]

Run(resp, callseq, arg) == [response |-> resp, calls |-> callseq, loaded |-> arg]

\* _extract_exif_from_pil(image) followed by _format_exif_info(...)
ExtractAndFormat(image, config, before) ==
    LET decoded == _extract_exif_from_pil(image)
        arg == IF TakesGetexifPath(image) \/ TakesInfoPath(image)
               THEN LoadArgument(image) ELSE NotLoaded
    IN  IF decoded.exc # "none"
        THEN Run(Caught(decoded), before \o <<"_extract_exif_from_pil">>, arg)
        ELSE LET report == _format_exif_info(decoded.value, config, image)
                 ran == before \o <<"_extract_exif_from_pil", "_format_exif_info">>
             IN  IF report.exc # "none" THEN Run(Caught(report), ran, arg)
                 ELSE Run(report.value, ran, arg)

UrlBranch(req, config) ==
    IF ~req.netloc_ok THEN Run(<<"Invalid image URL">>, <<>>, NotLoaded)
    ELSE LET got == _get_image_from_url(req, config)
         IN  IF got.exc # "none"
             THEN Run(Caught(got), <<"_get_image_from_url">>, NotLoaded)
             ELSE ExtractAndFormat(got.value, config, <<"_get_image_from_url">>)

Base64Branch(req, config) ==
    LET got == _get_image_from_base64(req)
    IN  IF got.exc # "none"
        THEN Run(Caught(got), <<"_get_image_from_base64">>, NotLoaded)
        ELSE IF ExceedsLimit(req.size, config)
        THEN Run(<<TooLargeText(config)>>, <<"_get_image_from_base64">>, NotLoaded)
        ELSE ExtractAndFormat(got.value, config, <<"_get_image_from_base64">>)

extract_exif_result(req) ==
    IF req.kind = "url" THEN UrlBranch(req, req.config)
    ELSE Base64Branch(req, req.config)

(***************************************************************************)
(* Enumerated inputs.                                                      *)
(***************************************************************************)
SizeSpread == 1

Rational(n, d) == [py |-> "tuple", a |-> n, b |-> d]
PyInt(k) == [py |-> "int", a |-> k, b |-> 0]
Bytes(s) == [py |-> "bytes", s |-> s]
Absent == [py |-> "absent"]

\* the dict that holds the entries of the record r other than Absent
DictOf(r) == [k \in {t \in DOMAIN r : r[t] # Absent} |-> r[k]]

FlashValues == (0 .. MaxFlash) \cup {24, 25}

ImageDirs ==
    { <<>>,
      [Make |-> Bytes("Acme"), Model |-> Bytes("X100")],
      [Make |-> Bytes("Acme"), Model |-> Bytes("X100"),
       DateTime |-> Bytes("2024:01:02 03:04:05"), Software |-> Bytes("fw 1.0")] }

ExifDirs ==
    {DictOf(r) : r \in [FNumber : {Absent, Rational(28, 10), Rational(28, 0), Rational(1, 4)},
                        ExposureTime : {Absent, Rational(1, 200), Rational(2, 400),
                                        Rational(1, 0), PyInt(2)},
                        ISOSpeedRatings : {Absent, PyInt(200)},
                        FocalLength : {Absent, Rational(50, 1), Rational(35, 0)},
                        Flash : {Absent} \cup {PyInt(v) : v \in FlashValues},
                        WhiteBalance : {Absent, PyInt(0), PyInt(1)}]}

GpsDirs == {[GPSLatitudeRef |-> Bytes("N")]}

\* dictionaries handed to _format_exif_info: any of the three directories may
\* be missing, and {} is the dictionary with none
ExifDictionaries ==
    {DictOf(r) : r \in [0th : {Absent} \cup ImageDirs,
                        Exif : {Absent} \cup ExifDirs,
                        GPS : {Absent} \cup GpsDirs]}

Descriptor == [is_none |-> FALSE, size |-> <<1920, 1080>>, mode |-> "RGB", format |-> "JPEG"]

DisplayConfigs ==
    {ExifConfig(t, l, DefaultMaxFileSize) : t \in BOOLEAN, l \in BOOLEAN}

\* directories carried by the blobs of the acquired images
SampleIfds ==
    { [0th |-> <<>>],
      [0th |-> [Make |-> Bytes("Acme"), Model |-> Bytes("X100")],
       Exif |-> [FNumber |-> Rational(28, 10), ISOSpeedRatings |-> PyInt(200)]],
      [0th |-> [Make |-> Bytes("Acme")], Exif |-> [FNumber |-> Rational(28, 0)]],
      [0th |-> [Make |-> Bytes("Acme")], GPS |-> [GPSLatitudeRef |-> Bytes("N")]] }

Blobs == {[fault |-> f, ifds |-> [0th |-> <<>>]] : f \in {"no_header", "truncated"}}
         \cup {[fault |-> "none", ifds |-> d] : d \in SampleIfds}

PilImage(has, none, info) ==
    [is_none |-> FALSE, has_getexif |-> has, getexif_none |-> none, info |-> info,
     size |-> <<1920, 1080>>, mode |-> "RGB", format |-> "JPEG"]

\* Pillow's images: _getexif() is None exactly when info holds no "exif"; a
\* plugin without _getexif may still put the blob in info
Images ==
    {PilImage(has, TRUE, <<>>) : has \in BOOLEAN}
    \cup {PilImage(has, FALSE, [exif |-> b]) : has \in BOOLEAN, b \in Blobs}

Payloads == {[is_image |-> FALSE]} \cup {[is_image |-> TRUE, image |-> i] : i \in Images}

PayloadSizes == (DefaultMaxFileSize - SizeSpread) .. (DefaultMaxFileSize + SizeSpread)

Requests ==
    [kind : {"url"}, netloc_ok : BOOLEAN, download_ok : BOOLEAN, b64_ok : {TRUE},
     size : PayloadSizes, payload : Payloads, config : DisplayConfigs]
    \cup
    [kind : {"base64"}, netloc_ok : {TRUE}, download_ok : {TRUE}, b64_ok : BOOLEAN,
     size : PayloadSizes, payload : Payloads, config : DisplayConfigs]

(***************************************************************************)
(* State machine.                                                          *)
(***************************************************************************)
NotCalled == [exc |-> "not_called", value |-> <<>>]

NoRequest == [kind |-> "none"]

Init ==
    /\ fmt_exif = <<>>
    /\ fmt_config = ExifConfig(TRUE, FALSE, DefaultMaxFileSize)
    /\ fmt_image = NoImage
    /\ fmt_out = NotCalled
    /\ request = NoRequest
    /\ response = <<>>
    /\ calls = <<>>
    /\ loaded = NotLoaded

\* one call of _format_exif_info (a pure function: calls share no state, so
\* a behaviour holds one call)
FormatCall ==
    /\ fmt_out = NotCalled
    /\ \E d \in ExifDictionaries, c \in DisplayConfigs, i \in {NoImage, Descriptor} :
        /\ fmt_exif' = d
        /\ fmt_config' = c
        /\ fmt_image' = i
        /\ fmt_out' = _format_exif_info(d, c, i)
        /\ UNCHANGED <<request, response, calls, loaded>>

\* one call of the extract_exif tool (it keeps nothing between calls, so a
\* behaviour holds one call)
extract_exif ==
    /\ request = NoRequest
    /\ \E req \in Requests :
        LET run == extract_exif_result(req)
        IN  /\ request' = req
            /\ response' = run.response
            /\ calls' = run.calls
            /\ loaded' = run.loaded
            /\ UNCHANGED <<fmt_exif, fmt_config, fmt_image, fmt_out>>

NextFormat == FormatCall

Next == extract_exif

SpecFormat == Init /\ [][NextFormat]_vars

Spec == Init /\ [][Next]_vars

(***************************************************************************)
(* Properties.                                                             *)
(***************************************************************************)
StartsWith(s, p) == Len(s) >= Len(p) /\ SubSeq(s, 1, Len(p)) = p

Contains(s, p) == \E i \in 1 .. (Len(s) - Len(p) + 1) : SubSeq(s, i, i + Len(p) - 1) = p

Elems(seq) == {seq[i] : i \in DOMAIN seq}

Formatted == fmt_out # NotCalled

Reported == fmt_out.exc = "none"

TechnicalLabels ==
    {"Aperture:", "Shutter Speed:", "ISO:", "Focal Length:", "Flash:", "White Balance:"}

IsTechnicalLine(line) == \E l \in TechnicalLabels : StartsWith(line, l)

IsTechnicalHeader(line) == StartsWith(line, "Technical Parameters")

LinesOf(label) == SelectSeq(fmt_out.value, LAMBDA line : StartsWith(line, label))

\* C1: with a dictionary that has no directories, _format_exif_info returns
\* exactly the one-line text "No EXIF information found", whatever the display
\* options and whether or not an image descriptor is given.
C1_NoDirectoriesGivesSentinel ==
    (Formatted /\ DOMAIN fmt_exif = {}) => fmt_out = Ok(<<"No EXIF information found">>)

C1_Witness ==
    /\ Formatted
    /\ DOMAIN fmt_exif = {}
    /\ ~fmt_image.is_none
    /\ fmt_config.include_technical
    /\ fmt_config.include_location
    /\ fmt_out.value = <<"No EXIF information found">>

\* C2: with include_technical false the call returns a report that holds no
\* technical header and no aperture, shutter, ISO, focal length, flash or white
\* balance line; with include_technical true and Exif FNumber = (28, 10) it
\* returns a report with a line that contains "f/2.8".
C2_TechnicalGate ==
    /\ (Formatted /\ ~fmt_config.include_technical) =>
          /\ Reported
          /\ \A line \in Elems(fmt_out.value) :
                ~IsTechnicalHeader(line) /\ ~IsTechnicalLine(line)
    /\ (/\ Formatted
        /\ fmt_config.include_technical
        /\ "Exif" \in DOMAIN fmt_exif
        /\ "FNumber" \in DOMAIN fmt_exif["Exif"]
        /\ fmt_exif["Exif"]["FNumber"] = Rational(28, 10)) =>
          /\ Reported
          /\ \E line \in Elems(fmt_out.value) : Contains(line, "f/2.8")

C2_Witness ==
    /\ Formatted
    /\ fmt_config.include_technical
    /\ "Exif" \in DOMAIN fmt_exif
    /\ "FNumber" \in DOMAIN fmt_exif["Exif"]
    /\ fmt_exif["Exif"]["FNumber"] = Rational(28, 10)
    /\ "Aperture: f/2.8" \in Elems(fmt_out.value)

ZeroDenominatorTags(exif_info) ==
    {t \in {"FNumber", "ExposureTime", "FocalLength"} \cap DOMAIN exif_info :
        IsTuple(exif_info[t]) /\ exif_info[t].b = 0}

WithoutZeroDenominators(exif_data) ==
    [exif_data EXCEPT !["Exif"] = [t \in (DOMAIN @) \ ZeroDenominatorTags(@) |-> @[t]]]

\* C3: a rational FNumber, ExposureTime or FocalLength whose denominator is 0 is
\* treated as an absent tag: the call does what it does for the dictionary
\* without those tags (no fault, no line for them, every other line kept).
C3_ZeroDenominatorIsAbsent ==
    (/\ Formatted
     /\ TechnicalEntered(fmt_exif, fmt_config)
     /\ ZeroDenominatorTags(fmt_exif["Exif"]) # {}) =>
        fmt_out = _format_exif_info(WithoutZeroDenominators(fmt_exif), fmt_config, fmt_image)

\* C6: when a report is returned with the technical block and Flash = v, its
\* one flash line reads "On" when v is odd and "Off" when v is even.
C6_FlashIsBitZero ==
    (/\ Reported
     /\ TechnicalEntered(fmt_exif, fmt_config)
     /\ "Flash" \in DOMAIN fmt_exif["Exif"]) =>
        LET v == fmt_exif["Exif"]["Flash"].a
        IN  /\ v % 2 = 1 => LinesOf("Flash:") = <<"Flash: On">>
            /\ v % 2 = 0 => LinesOf("Flash:") = <<"Flash: Off">>

C6_Witness ==
    /\ Reported
    /\ TechnicalEntered(fmt_exif, fmt_config)
    /\ "Flash" \in DOMAIN fmt_exif["Exif"]
    /\ fmt_exif["Exif"]["Flash"].a = 25
    /\ "Flash: On" \in Elems(fmt_out.value)

\* C7: when a report is returned with the technical block, an ExposureTime
\* (n, d) with d # 0 gives the one shutter line "Shutter Speed: n/ds", unreduced
\* ((1, 200) gives 1/200s, (2, 400) gives 2/400s), and an ExposureTime that is
\* the int k gives "Shutter Speed: ks" (2 gives 2s).
C7_ShutterSpeedFormat ==
    (/\ Reported
     /\ TechnicalEntered(fmt_exif, fmt_config)
     /\ "ExposureTime" \in DOMAIN fmt_exif["Exif"]) =>
        LET e == fmt_exif["Exif"]["ExposureTime"]
            shutter == LinesOf("Shutter Speed:")
        IN  /\ (IsTuple(e) /\ e.b # 0) =>
                  shutter = <<"Shutter Speed: " \o Str(e.a) \o "/" \o Str(e.b) \o "s">>
            /\ ~IsTuple(e) => shutter = <<"Shutter Speed: " \o Str(e.a) \o "s">>
            /\ e = Rational(1, 200) => shutter = <<"Shutter Speed: 1/200s">>
            /\ e = Rational(2, 400) => shutter = <<"Shutter Speed: 2/400s">>
            /\ e = PyInt(2) => shutter = <<"Shutter Speed: 2s">>

C7_Witness ==
    /\ Reported
    /\ TechnicalEntered(fmt_exif, fmt_config)
    /\ "ExposureTime" \in DOMAIN fmt_exif["Exif"]
    /\ fmt_exif["Exif"]["ExposureTime"] = Rational(2, 400)
    /\ "Shutter Speed: 2/400s" \in Elems(fmt_out.value)

FlipLocation(config) == [config EXCEPT !.include_location = ~@]

IsLocationLine(line) ==
    Contains(line, "GPS") \/ Contains(line, "Location") \/ Contains(line, "Latitude")

\* the outcome of a call (a report or a fault) does not depend on
\* include_location, and a report holds no location line
LocationIsIgnored ==
    Formatted =>
        /\ fmt_out = _format_exif_info(fmt_exif, FlipLocation(fmt_config), fmt_image)
        /\ \A line \in Elems(fmt_out.value) : ~IsLocationLine(line)

\* C8: for every dictionary, descriptor and pair of options that differ only in
\* include_location, the call returns a report (no error), the same report for
\* both options, with no location line.
C8_LocationGateSameReportNoError ==
    Formatted =>
        /\ Reported
        /\ fmt_out = _format_exif_info(fmt_exif, FlipLocation(fmt_config), fmt_image)
        /\ \A line \in Elems(fmt_out.value) : ~IsLocationLine(line)

\* C9: in every report, a technical header is followed (after its rule) by at
\* least one of the six technical lines.
C9_NoEmptyTechnicalHeader ==
    Reported =>
        \A i \in DOMAIN fmt_out.value :
            IsTechnicalHeader(fmt_out.value[i]) =>
                /\ i + 2 <= Len(fmt_out.value)
                /\ IsTechnicalLine(fmt_out.value[i + 2])

Handled == request # NoRequest

CoreCalls == {"_extract_exif_from_pil", "_format_exif_info"}

\* the request delivered a payload of request.size bytes
PayloadObtained ==
    /\ Handled
    /\ \/ request.kind = "url" /\ request.netloc_ok /\ request.download_ok
       \/ request.kind = "base64" /\ request.b64_ok

\* C4: when the acquired image carries a metadata blob the decoder cannot parse,
\* extract_exif returns exactly "No EXIF information found".
C4_UnparseableBlobGivesSentinel ==
    (/\ Handled
     /\ "_extract_exif_from_pil" \in Elems(calls)
     /\ "exif" \in DOMAIN request.payload.image.info
     /\ request.payload.image.info["exif"].fault # "none") =>
        response = <<"No EXIF information found">>

\* C5: a payload longer than max_file_size is answered, on the URL path and on
\* the base64 path, with a message that names the size limit and without any
\* call of _extract_exif_from_pil or _format_exif_info; a payload of exactly
\* max_file_size bytes is not answered with the size message.
C5_OversizeRejectedBeforeCore ==
    /\ (PayloadObtained /\ request.size > request.config.max_file_size) =>
          /\ Elems(calls) \cap CoreCalls = {}
          /\ Contains(response[1], "File too large, exceeds 50MB limit")
    /\ (PayloadObtained /\ request.size = request.config.max_file_size) =>
          ~Contains(response[1], "File too large")

\* C10: whenever _extract_exif_from_pil calls piexif.load, the argument is the
\* raw metadata byte sequence image.info['exif'] of the image.
C10_DecoderReceivesRawBlob ==
    (Handled /\ loaded # NotLoaded) =>
        /\ loaded.py = "bytes"
        /\ loaded = RawBytes(request.payload.image.info["exif"])

====
